---- MODULE Spec2Model ----
(***************************************************************************)
(* cex-dex-tracker: the two batch scripts that poll the CoinGecko          *)
(* derivatives endpoint.                                                   *)
(*   listings_check.py      the deduplicating listing differ ("check")     *)
(*   perps_data_fetcher.py  the daily data fetcher, with the earlier       *)
(*                          non-deduplicating listing logger ("fetcher")   *)
(* Both read src/perps.json and listings/listedtill_5thAug.json and both   *)
(* write listings/perps_listings.json.  A run is: the configuration        *)
(* checks, the retry loop of fetch_derivatives_data (one step per loop     *)
(* iteration), then the rest of main().                                    *)
(***************************************************************************)
EXTENDS Integers, Sequences, FiniteSets, TLC

\* ------------------------------------------------------------- bounds
\* successful runs explored when both scripts share the files
MaxRuns == 2
\* successful runs explored when only listings_check.py runs
MaxRunsCheck == 4
\* largest retry budget given to fetch_derivatives_data on its own
MaxRetries == 4
\* direct calls of update_daily_combined explored, and the dates they use
MaxCalls == 3
MaxDate == 2

\* retries=3, the default that both main() functions rely on
DefaultRetries == 3

\* ------------------------------------------------------- JSON values
\* A JSON scalar of a ticker field: a number, a numeric string, null, the
\* empty string, or a string float() rejects.
JNum(n) == [t |-> "num", n |-> n]
JNumStr(n) == [t |-> "numstr", n |-> n]
JNull == [t |-> "null", n |-> 0]
JEmpty == [t |-> "empty", n |-> 0]
JBad == [t |-> "bad", n |-> 0]

\* float(v) if v not in [None, ""] else 0, with the except branch giving 0
to_float(v) == IF v.t \in {"num", "numstr"} THEN v.n ELSE 0

\* str.lower() on the exchange names of the model
Lower(s) ==
  CASE s = "A" -> "a"
    [] s = "B" -> "b"
    [] OTHER -> s

\* Python's ordering of the strings of the model (code points)
StrOrd(s) ==
  CASE s = "" -> 0
    [] s = "A" -> 65
    [] s = "B" -> 66
    [] s = "X" -> 88
    [] s = "Y" -> 89
    [] s = "a" -> 97
    [] s = "b" -> 98
    [] OTHER -> 200

\* tuple comparison (exchange, symbol) < (exchange, symbol)
PairLess(p, q) ==
  \/ StrOrd(p[1]) < StrOrd(q[1])
  \/ p[1] = q[1] /\ StrOrd(p[2]) < StrOrd(q[2])

\* ------------------------------------------------------------ inputs
\* Ticker objects the API can return.  market "" stands for a record
\* without a "market" key.
tAX == [market |-> "A", symbol |-> "X", open_interest |-> JNum(3), volume_24h |-> JNum(2)]
tAY == [market |-> "A", symbol |-> "Y", open_interest |-> JNull, volume_24h |-> JBad]
tBX == [market |-> "B", symbol |-> "X", open_interest |-> JEmpty, volume_24h |-> JNumStr(1)]
tNoMarket == [market |-> "", symbol |-> "Y", open_interest |-> JNum(1), volume_24h |-> JNull]

Tickers == {tAX, tAY, tBX}

\* the non-empty lists the endpoint answers with
LiveChoices ==
  {<<t>> : t \in Tickers}
    \cup {p \in Tickers \X Tickers : p[1] # p[2]}
    \cup {<<tNoMarket, tBX>>}

\* One HTTP exchange: a transport/HTTP/JSON error (the except branch), a
\* JSON document that is no list, an empty list, or a list of tickers.
Responses ==
  {[kind |-> "error", data |-> <<>>],
   [kind |-> "nonlist", data |-> <<>>],
   [kind |-> "list", data |-> <<>>]}
    \cup {[kind |-> "list", data |-> d] : d \in LiveChoices}

NoResponse == [kind |-> "none", data |-> <<>>]

\* src/perps.json: the "name" of each entry, in file order
PerpsChoices == {<<>>, <<"A", "B">>, <<"a", "B">>}

\* listings/listedtill_5thAug.json: absent, or the object's entries in file
\* order (each symbol list is only ever read through set())
NoBaseline == [exists |-> FALSE, entries |-> <<>>]
BaselineChoices ==
  {NoBaseline,
   [exists |-> TRUE, entries |-> <<[ex |-> "A", syms |-> {"X"}]>>],
   [exists |-> TRUE,
    entries |-> <<[ex |-> "B", syms |-> {"X"}], [ex |-> "A", syms |-> {"X", "Y"}]>>]}

\* ------------------------------------------------------------- state
VARIABLES
  perps,        \* src/perps.json
  baseline,     \* listings/listedtill_5thAug.json
  log,          \* listings/perps_listings.json (<<>> when absent)
  dataFiles,    \* data/perps/<exchange>/<exchange.lower()>_<date>.json
  indexFiles,   \* data/perps/<exchange>/combined_<exchange.lower()>.json
  summary,      \* data/perps/combined/daily_combined.json
  listingsDir,  \* whether the directory listings/ exists
  clock,        \* the clock: the timestamp of the latest successful run
  prog,         \* the script that runs or ran last
  pc,           \* its position
  outcome,      \* how the last run ended
  retries,      \* fetch_derivatives_data: its budget
  attempt,      \*   its loop counter
  httpCalls,    \*   requests.get calls made
  sleeps,       \*   time.sleep calls made
  resp,         \*   the latest response
  result,       \*   its return value
  before,       \* the files as the current run found them
  lastRun,      \* script and live data of the latest successful run
  prevRun,      \* and of the one before
  ncalls,       \* direct calls of update_daily_combined made
  lastCall,     \* the arguments of the latest one
  supplied      \* the sum each (date, exchange) was last called with, and when

files == <<baseline, log, dataFiles, indexFiles, summary>>
fetchVars == <<retries, attempt, httpCalls, sleeps, resp, result>>
callVars == <<ncalls, lastCall, supplied>>
vars == <<perps, baseline, log, dataFiles, indexFiles, summary, listingsDir,
          clock, prog, pc, outcome, retries, attempt, httpCalls, sleeps, resp,
          result, before, lastRun, prevRun, ncalls, lastCall, supplied>>

\* ------------------------------------------------------ small helpers
Range(s) == {s[i] : i \in 1..Len(s)}

\* the orders in which iterating a set can yield its elements
Perms(S) ==
  {f \in [1..Cardinality(S) -> S] : \A x \in S : \E i \in 1..Cardinality(S) : f[i] = x}

\* the distinct elements of a sequence in order of first occurrence (the key
\* order of a dict filled by walking the sequence)
RECURSIVE FirstOccurrences(_)
FirstOccurrences(s) ==
  IF s = <<>> THEN <<>>
  ELSE LET init == FirstOccurrences(SubSeq(s, 1, Len(s) - 1))
           x == s[Len(s)]
       IN IF x \in Range(init) THEN init ELSE Append(init, x)

IsTransition(r) == r.action \in {"listed", "delisted"}
Transitions(lg) == SelectSeq(lg, IsTransition)

Sentinel(now) == [date |-> now, symbol |-> "NA", name |-> "NA", action |-> "last updated"]
Record(p, act, now) == [date |-> now, symbol |-> p[2], name |-> p[1], action |-> act]

RECURSIVE Records(_, _, _)
Records(ps, act, now) ==
  IF ps = <<>> THEN <<>> ELSE <<Record(Head(ps), act, now)>> \o Records(Tail(ps), act, now)

\* ------------------------------------------- fetch_derivatives_data
\* while attempt < retries
LoopCondNoBudget(a, r) == a <= r
LoopCond(a, r) == a < r

\* isinstance(data, list) and len(data) > 0
IsData(r) == r.kind = "list" /\ Len(r.data) > 0

\* if attempt < retries: time.sleep(wait_sec), after attempt += 1
SleepsAfter(a, r, n) == IF a < r THEN n + 1 ELSE n

NoResult == [ok |-> FALSE, data |-> <<>>]

\* one iteration of the loop: a request, then either the return of its data
\* or the count of a failed attempt and the wait before the next one
FetchAttempt ==
  /\ pc = "fetch"
  /\ LoopCond(attempt, retries)
  /\ \E r \in Responses :
       /\ resp' = r
       /\ httpCalls' = httpCalls + 1
       /\ IF IsData(r)
          THEN /\ result' = [ok |-> TRUE, data |-> r.data]
               /\ pc' = "fetched"
               /\ UNCHANGED <<attempt, sleeps>>
          ELSE /\ attempt' = attempt + 1
               /\ sleeps' = SleepsAfter(attempt + 1, retries, sleeps)
               /\ UNCHANGED <<result, pc>>
  /\ UNCHANGED <<perps, baseline, log, dataFiles, indexFiles, summary, listingsDir,
                 clock, prog, outcome, retries, before, lastRun, prevRun>>
  /\ UNCHANGED callVars

\* the loop condition fails: return None
FetchGiveUp ==
  /\ pc = "fetch"
  /\ ~LoopCond(attempt, retries)
  /\ result' = NoResult
  /\ pc' = "fetched"
  /\ UNCHANGED <<perps, baseline, log, dataFiles, indexFiles, summary, listingsDir,
                 clock, prog, outcome, retries, attempt, httpCalls, sleeps, resp,
                 before, lastRun, prevRun>>
  /\ UNCHANGED callVars

\* ------------------------------------------------- files and snapshots
EmptyMap == [x \in {} |-> 0]
Put(f, k, v) == [x \in DOMAIN f \cup {k} |-> IF x = k THEN v ELSE f[x]]

Snapshot ==
  [baseline |-> baseline, log |-> log, dataFiles |-> dataFiles,
   indexFiles |-> indexFiles, summary |-> summary]

NoRun == [prog |-> "none", live |-> <<>>]

\* the locals of fetch_derivatives_data at its entry, with the default budget
FetchEntry ==
  /\ retries' = DefaultRetries
  /\ attempt' = 0
  /\ httpCalls' = 0
  /\ sleeps' = 0
  /\ resp' = NoResponse
  /\ result' = NoResult

\* a run ends without having written a file
AbortStampsLog(why) ==
  /\ pc' = "done"
  /\ outcome' = why
  /\ FetchEntry
  /\ log' = IF log = <<>> THEN <<Sentinel(clock)>> ELSE [log EXCEPT ![1].date = 0]
  /\ UNCHANGED <<baseline, dataFiles, indexFiles, summary, clock, lastRun, prevRun>>
Abort(why) ==
  /\ pc' = "done"
  /\ outcome' = why
  /\ FetchEntry
  /\ UNCHANGED <<baseline, log, dataFiles, indexFiles, summary, clock, lastRun, prevRun>>

\* a dict's .get(ex, set()) on the entries of a listing file
SymsOf(entries, ex) == UNION {e.syms : e \in {x \in Range(entries) : x.ex = ex}}

\* the orders in which "for ex in d: for sym in d[ex]" can yield the pairs
\* that cand keeps: the keys in dict order, each set in any order
RECURSIVE IterOrders(_, _)
IterOrders(keys, cand) ==
  IF keys = <<>> THEN {<<>>}
  ELSE LET ex == Head(keys)
       IN {[i \in 1..Len(f) |-> <<ex, f[i]>>] \o rest :
             f \in Perms(cand[ex]), rest \in IterOrders(Tail(keys), cand)}

\* ------------------------------------------------ listings_check.py
load_perps_exchanges(ps) == Range(ps)

\* base_map: the baseline's entries of tracked exchanges, in file order
base_map(bl, tracked) ==
  LET Keep(e) == e.ex \in tracked IN SelectSeq(bl.entries, Keep)

\* the items the live_map loop does not skip
CheckKeeps(item, tracked) ==
  item.market # "" /\ item.symbol # "" /\ item.market \in tracked

\* live_map: its keys in insertion order, and the set under each key
live_keys(live, tracked) ==
  LET Keep(item) == CheckKeeps(item, tracked)
      kept == SelectSeq(live, Keep)
  IN FirstOccurrences([i \in 1..Len(kept) |-> kept[i].market])
live_syms(live, tracked, ex) ==
  {item.symbol : item \in {x \in Range(live) : CheckKeeps(x, tracked) /\ x.market = ex}}

\* the "last updated" row: overwritten in place or put in front
UpsertSentinelRedate(lg, now) ==
  <<Sentinel(now)>> \o [i \in 1..Len(lg) - 1 |-> [lg[i + 1] EXCEPT !.date = now]]
UpsertSentinel(lg, now) ==
  IF lg # <<>> /\ lg[1].action = "last updated"
  THEN [lg EXCEPT ![1].date = now]
  ELSE <<Sentinel(now)>> \o lg

\* (exchange, symbol) -> the action of the pair's last transition row
build_last_state_none(lg) == EmptyMap
build_last_state_listed_only(lg) ==
  LET rows == {i \in 1..Len(lg) : lg[i].action = "listed"}
      keys == {<<lg[i].name, lg[i].symbol>> : i \in rows}
  IN [k \in keys |-> "listed"]
build_last_state_delisted_only(lg) ==
  LET rows == {i \in 1..Len(lg) : lg[i].action = "delisted"}
      keys == {<<lg[i].name, lg[i].symbol>> : i \in rows}
  IN [k \in keys |-> "delisted"]
build_last_state(lg) ==
  LET rows == {i \in 1..Len(lg) : IsTransition(lg[i])}
      keys == {<<lg[i].name, lg[i].symbol>> : i \in rows}
      Last(k) == CHOOSE i \in rows :
                   /\ <<lg[i].name, lg[i].symbol>> = k
                   /\ \A j \in rows : <<lg[j].name, lg[j].symbol>> = k => j <= i
  IN [k \in keys |-> lg[Last(k)].action]

\* last_state.get(key)
StateGet(st, k) == IF k \in DOMAIN st THEN st[k] ELSE "none"

\* the lists `listed` can be: in live, not in base, not already "listed"
CheckListed(live, bm, tracked, st) ==
  LET keys == live_keys(live, tracked)
      cand == [ex \in Range(keys) |->
                 {sym \in live_syms(live, tracked, ex) :
                    sym \notin SymsOf(bm, ex) /\ StateGet(st, <<ex, sym>>) # "listed"}]
  IN IterOrders(keys, cand)

\* the lists `delisted` can be: in base, not in live, not already "delisted"
CheckDelistedIgnoresLive(live, bm, tracked, st) ==
  LET keys == [i \in 1..Len(bm) |-> bm[i].ex]
      cand == [ex \in Range(keys) |->
                 {sym \in SymsOf(bm, ex) : StateGet(st, <<ex, sym>>) # "delisted"}]
  IN IterOrders(keys, cand)
CheckDelisted(live, bm, tracked, st) ==
  LET keys == [i \in 1..Len(bm) |-> bm[i].ex]
      cand == [ex \in Range(keys) |->
                 {sym \in SymsOf(bm, ex) :
                    sym \notin live_syms(live, tracked, ex)
                      /\ StateGet(st, <<ex, sym>>) # "delisted"}]
  IN IterOrders(keys, cand)

\* main() from "Load or Init Log" to save_json: the logs it can write
CheckLogs(lg, bl, ps, live, now) ==
  LET tracked == load_perps_exchanges(ps)
      bm == base_map(bl, tracked)
      lg1 == UpsertSentinel(lg, now)
      st == build_last_state(lg1)
  IN {lg1 \o Records(l, "listed", now) \o Records(d, "delisted", now) :
        l \in CheckListed(live, bm, tracked, st),
        d \in CheckDelisted(live, bm, tracked, st)}

\* main() up to the fetch: tracked exchanges, API key, baseline
CheckStart ==
  /\ pc \in {"idle", "done"}
  /\ prog' = "check"
  /\ before' = Snapshot
  /\ \E key \in BOOLEAN :
       IF load_perps_exchanges(perps) = {} THEN Abort("no_exchanges")
       ELSE IF ~key THEN Abort("no_key")
       ELSE IF ~(baseline.exists /\ baseline.entries # <<>>) THEN Abort("no_baseline")
       ELSE /\ pc' = "fetch"
            /\ outcome' = "running"
            /\ FetchEntry
            /\ UNCHANGED <<baseline, log, dataFiles, indexFiles, summary, clock,
                           lastRun, prevRun>>
  /\ UNCHANGED <<perps, listingsDir>>
  /\ UNCHANGED callVars

\* main() after the fetch
CheckFinish ==
  /\ pc = "fetched"
  /\ prog = "check"
  /\ IF ~result.ok
     THEN Abort("no_data")
     ELSE /\ clock' = clock + 1
          /\ log' \in CheckLogs(log, baseline, perps, result.data, clock + 1)
          /\ pc' = "done"
          /\ outcome' = "ok"
          /\ prevRun' = lastRun
          /\ lastRun' = [prog |-> "check", live |-> result.data]
          /\ FetchEntry
          /\ UNCHANGED <<baseline, dataFiles, indexFiles, summary>>
  /\ UNCHANGED <<perps, listingsDir, prog, before>>
  /\ UNCHANGED callVars

\* ---------------------------------------------- perps_data_fetcher.py
\* get_current_listings: the markets in insertion order, the set under each
FetcherKeeps(item) == item.market # "" /\ item.symbol # ""
get_current_listings(all_data) ==
  LET kept == SelectSeq(all_data, FetcherKeeps)
      keys == FirstOccurrences([i \in 1..Len(kept) |-> kept[i].market])
  IN [i \in 1..Len(keys) |->
        [ex |-> keys[i],
         syms |-> {x.symbol : x \in {y \in Range(kept) : y.market = keys[i]}}]]

\* json.dump(..., sort_keys=True): the entries in ascending key order
RECURSIVE SortByKey(_)
SortByKey(entries) ==
  IF entries = <<>> THEN <<>>
  ELSE LET i == CHOOSE j \in 1..Len(entries) :
                  \A k \in 1..Len(entries) : StrOrd(entries[j].ex) <= StrOrd(entries[k].ex)
       IN <<entries[i]>>
            \o SortByKey([k \in 1..Len(entries) - 1 |->
                            IF k < i THEN entries[k] ELSE entries[k + 1]])

\* save_initial_listed_file: written only when the file does not exist
save_initial_listed_file(bl, current_listing_map) ==
  IF bl.exists THEN bl
  ELSE [exists |-> TRUE, entries |-> SortByKey(current_listing_map)]

\* set((m, s) for m, syms in d.items() for s in syms)
FlatPairs(entries) ==
  UNION {{<<e.ex, sym>> : sym \in e.syms} : e \in Range(entries)}

\* update_perps_listings_log: the logs it can write
update_perps_listings_log(lg, bl, current_listing_map, unix_date) ==
  LET baseline_set == FlatPairs(bl.entries)
      current_set == FlatPairs(current_listing_map)
      lg1 == Append(lg, Sentinel(unix_date))
  IN {lg1 \o Records(l, "listed", unix_date) \o Records(d, "delisted", unix_date) :
        l \in Perms(current_set \ baseline_set),
        d \in Perms(baseline_set \ current_set)}

\* the rows save_exchange_daily_data stores for the tickers
DailyRows(tickers) ==
  [i \in 1..Len(tickers) |->
     [symbol |-> tickers[i].symbol,
      open_interest |-> to_float(tickers[i].open_interest),
      volume_24h |-> to_float(tickers[i].volume_24h)]]

\* save_exchange_daily_data on st = [dataFiles, indexFiles, summary]
save_exchange_daily_data(st, exchange, tickers, unix_date) ==
  LET fname == <<Lower(exchange), unix_date>>
      path == <<exchange, fname>>
      combined == IF exchange \in DOMAIN st.indexFiles THEN st.indexFiles[exchange] ELSE <<>>
  IN IF path \in DOMAIN st.dataFiles THEN st
     ELSE [st EXCEPT
             !.dataFiles = Put(st.dataFiles, path, DailyRows(tickers)),
             !.indexFiles = IF fname \in Range(combined) THEN st.indexFiles
                            ELSE Put(st.indexFiles, exchange, Append(combined, fname))]

\* update_daily_combined on the rows of daily_combined.json
update_daily_combined_append(combined_data, exchange, sum_volume, unix_date) ==
  Append(combined_data, [date |-> unix_date, market |-> exchange, sum_volume_24h |-> sum_volume])
update_daily_combined(combined_data, exchange, sum_volume, unix_date) ==
  LET hits == {i \in 1..Len(combined_data) :
                 /\ combined_data[i].date = unix_date
                 /\ Lower(combined_data[i].market) = Lower(exchange)}
  IN IF hits # {}
     THEN LET i == CHOOSE j \in hits : \A k \in hits : j <= k
          IN [combined_data EXCEPT ![i].sum_volume_24h = sum_volume]
     ELSE Append(combined_data,
                 [date |-> unix_date, market |-> exchange, sum_volume_24h |-> sum_volume])

\* the null-safe sum of the tickers' 24h volume
RECURSIVE SumVolume(_)
SumVolume(tickers) ==
  IF tickers = <<>> THEN 0 ELSE to_float(Head(tickers).volume_24h) + SumVolume(Tail(tickers))

\* main(): for ex in perps_list
RECURSIVE ExchangeLoop(_, _, _, _)
ExchangeLoop(ps, all_data, unix_date, st) ==
  IF ps = <<>> THEN st
  ELSE LET ex_name == Head(ps)
           Mine(item) == Lower(item.market) = Lower(ex_name)
           ex_tickers == SelectSeq(all_data, Mine)
       IN IF ex_tickers = <<>> THEN ExchangeLoop(Tail(ps), all_data, unix_date, st)
          ELSE LET st1 == save_exchange_daily_data(st, ex_name, ex_tickers, unix_date)
                   st2 == [st1 EXCEPT !.summary =
                             update_daily_combined(st1.summary, ex_name,
                                                   SumVolume(ex_tickers), unix_date)]
               IN ExchangeLoop(Tail(ps), all_data, unix_date, st2)

\* main() up to the fetch: listings directory, API key, exchange list
FetcherStart ==
  /\ pc \in {"idle", "done"}
  /\ prog' = "fetcher"
  /\ before' = Snapshot
  /\ listingsDir' = TRUE
  /\ \E key \in BOOLEAN :
       IF ~key THEN Abort("no_key")
       ELSE IF perps = <<>> THEN Abort("no_exchanges")
       ELSE /\ pc' = "fetch"
            /\ outcome' = "running"
            /\ FetchEntry
            /\ UNCHANGED <<baseline, log, dataFiles, indexFiles, summary, clock,
                           lastRun, prevRun>>
  /\ UNCHANGED perps
  /\ UNCHANGED callVars

\* main() after the fetch
FetcherFinish ==
  /\ pc = "fetched"
  /\ prog = "fetcher"
  /\ IF ~result.ok
     THEN Abort("no_data")
     ELSE LET unix_date == clock + 1
              current_listing_map == get_current_listings(result.data)
              bl == save_initial_listed_file(baseline, current_listing_map)
              st == ExchangeLoop(perps, result.data, unix_date,
                                 [dataFiles |-> dataFiles, indexFiles |-> indexFiles,
                                  summary |-> summary])
          IN /\ clock' = unix_date
             /\ baseline' = bl
             /\ log' \in update_perps_listings_log(log, bl, current_listing_map, unix_date)
             /\ dataFiles' = st.dataFiles
             /\ indexFiles' = st.indexFiles
             /\ summary' = st.summary
             /\ pc' = "done"
             /\ outcome' = "ok"
             /\ prevRun' = lastRun
             /\ lastRun' = [prog |-> "fetcher", live |-> result.data]
             /\ FetchEntry
  /\ UNCHANGED <<perps, listingsDir, prog, before>>
  /\ UNCHANGED callVars

\* --------------------------------- update_daily_combined on its own
CallExchanges == {"A", "a", "B"}
CallSums == {0, 1}
NoCall == [exchange |-> "", sum |-> 0, date |-> 0]
NeverSupplied == [sum |-> 0, at |-> 0]

UpdateDailyCombined ==
  /\ pc = "calls"
  /\ ncalls < MaxCalls
  /\ \E ex \in CallExchanges, sum \in CallSums, d \in 1..MaxDate :
       /\ summary' = update_daily_combined(summary, ex, sum, d)
       /\ lastCall' = [exchange |-> ex, sum |-> sum, date |-> d]
       /\ supplied' = [supplied EXCEPT ![<<d, ex>>] = [sum |-> sum, at |-> ncalls + 1]]
  /\ ncalls' = ncalls + 1
  /\ UNCHANGED <<perps, baseline, log, dataFiles, indexFiles, listingsDir, clock,
                 prog, pc, outcome, before, lastRun, prevRun>>
  /\ UNCHANGED fetchVars

\* ------------------------------------------------------ specifications
InitFiles ==
  /\ log = <<>>
  /\ dataFiles = EmptyMap
  /\ indexFiles = EmptyMap
  /\ summary = <<>>
  /\ clock = 0
  /\ outcome = "none"
  /\ prog = "none"
  /\ attempt = 0
  /\ httpCalls = 0
  /\ sleeps = 0
  /\ resp = NoResponse
  /\ result = NoResult
  /\ lastRun = NoRun
  /\ prevRun = NoRun
  /\ ncalls = 0
  /\ lastCall = NoCall
  /\ supplied = [k \in (1..MaxDate) \X CallExchanges |-> NeverSupplied]

\* the scripts before their first run: no log, no data
Init ==
  /\ InitFiles
  /\ perps \in PerpsChoices
  /\ baseline \in BaselineChoices
  /\ listingsDir = baseline.exists
  /\ retries = DefaultRetries
  /\ pc = "idle"
  /\ before = Snapshot

\* both scripts, run one after the other in any order
Next ==
  \/ clock < MaxRuns /\ CheckStart
  \/ clock < MaxRuns /\ FetcherStart
  \/ FetchAttempt
  \/ FetchGiveUp
  \/ CheckFinish
  \/ FetcherFinish

Spec == Init /\ [][Next]_vars

\* listings_check.py alone
NextCheck ==
  \/ clock < MaxRunsCheck /\ CheckStart
  \/ FetchAttempt
  \/ FetchGiveUp
  \/ CheckFinish

SpecCheck == Init /\ [][NextCheck]_vars

\* perps_data_fetcher.py alone
NextFetcher ==
  \/ clock < MaxRuns /\ FetcherStart
  \/ FetchAttempt
  \/ FetchGiveUp
  \/ FetcherFinish

SpecFetcher == Init /\ [][NextFetcher]_vars

\* fetch_derivatives_data alone, entered with any budget
InitFetch ==
  /\ InitFiles
  /\ perps = <<>>
  /\ baseline = NoBaseline
  /\ listingsDir = FALSE
  /\ retries \in 0..MaxRetries
  /\ pc = "fetch"
  /\ before = Snapshot

NextFetch == FetchAttempt \/ FetchGiveUp

\* the loop is sequential code: it takes its next step whenever it has one
SpecFetch == InitFetch /\ [][NextFetch]_vars /\ WF_vars(NextFetch)

\* update_daily_combined alone, from an absent summary
InitCombined ==
  /\ InitFiles
  /\ perps = <<>>
  /\ baseline = NoBaseline
  /\ listingsDir = FALSE
  /\ retries = DefaultRetries
  /\ pc = "calls"
  /\ before = Snapshot

NextCombined == UpdateDailyCombined

SpecCombined == InitCombined /\ [][NextCombined]_vars

\* ===================================================== the properties
Succeeded == pc = "done" /\ outcome = "ok"

SentinelRows(lg) == {i \in 1..Len(lg) : lg[i].action = "last updated"}

\* the (exchange, symbol) pairs of live data that listings_check.py keeps
TrackedPairs(live) ==
  {<<x.market, x.symbol>> : x \in {y \in Range(live) : CheckKeeps(y, Range(perps))}}
\* the pairs of the baseline that listings_check.py keeps
TrackedBase == FlatPairs(base_map(baseline, Range(perps)))
\* the pairs of live data that perps_data_fetcher.py keeps
AllPairs(live) == {<<x.market, x.symbol>> : x \in {y \in Range(live) : FetcherKeeps(y)}}

\* the transition rows the latest run appended
NewRows ==
  SubSeq(Transitions(log), Len(Transitions(before.log)) + 1, Len(Transitions(log)))
NewPairs(act) ==
  LET Is(r) == r.action = act
      rows == SelectSeq(NewRows, Is)
  IN [i \in 1..Len(rows) |-> <<rows[i].name, rows[i].symbol>>]

\* the rows of one pair, and the action of its last row ("none" without one)
RowsOf(lg, p) == {i \in 1..Len(lg) : IsTransition(lg[i]) /\ <<lg[i].name, lg[i].symbol>> = p}
LastAction(lg, p) ==
  IF RowsOf(lg, p) = {} THEN "none"
  ELSE lg[CHOOSE i \in RowsOf(lg, p) : \A j \in RowsOf(lg, p) : j <= i].action

LoggedPairs(lg) == {<<lg[i].name, lg[i].symbol>> : i \in {j \in 1..Len(lg) : IsTransition(lg[j])}}

\* C1: after any run the log holds exactly one "last updated" row, it is the
\* first row, and its date is the timestamp of the latest run.
C1_OneSentinelFirst ==
  log # <<>> =>
    /\ SentinelRows(log) = {1}
    /\ log[1].date = clock

\* C2: a second run of listings_check.py on the same baseline, exchanges and
\* current listings appends no transition row; the log changes only in the
\* date of the sentinel.
C2_SecondRunAddsNothing ==
  (/\ Succeeded
   /\ prog = "check"
   /\ prevRun.prog = "check"
   /\ TrackedPairs(prevRun.live) = TrackedPairs(lastRun.live))
    => /\ Len(log) = Len(before.log)
       /\ log[1] = [before.log[1] EXCEPT !.date = clock]
       /\ \A i \in 2..Len(log) : log[i] = before.log[i]

C2_Witness ==
  /\ Succeeded
  /\ prog = "check"
  /\ prevRun.prog = "check"
  /\ TrackedPairs(prevRun.live) = TrackedPairs(lastRun.live)
  /\ \E i \in 1..Len(log) : log[i].action = "listed" /\ log[i].date = clock - 1
  /\ \E i \in 1..Len(log) : log[i].action = "delisted" /\ log[i].date = clock - 1

\* C3: every step keeps the rows already in the log, in order and unchanged,
\* except that the date of a first-row sentinel may be overwritten; the old
\* transition rows are a prefix of the new ones.
C3_AppendOnly ==
  [][/\ Len(log') >= Len(log)
     /\ \E k \in {0, 1} :
          /\ Len(log') >= Len(log) + k
          /\ \A i \in 1..Len(log) :
               \/ log'[i + k] = log[i]
               \/ /\ i = 1
                  /\ k = 0
                  /\ log[1].action = "last updated"
                  /\ log'[1] = [log[1] EXCEPT !.date = log'[1].date]
     /\ SubSeq(Transitions(log'), 1, Len(Transitions(log))) = Transitions(log)]_vars

C3_Witness ==
  /\ Succeeded
  /\ Transitions(before.log) # <<>>
  /\ Len(Transitions(log)) > Len(Transitions(before.log))
  /\ log[1].date # before.log[1].date

\* C4: with listings_check.py alone, the rows of one (exchange, symbol) pair
\* never show the same action twice in a row.
C4_NoRepeatedAction ==
  \A i \in 1..Len(log) : \A j \in (i + 1)..Len(log) :
    (/\ IsTransition(log[i])
     /\ IsTransition(log[j])
     /\ log[i].name = log[j].name
     /\ log[i].symbol = log[j].symbol
     /\ \A k \in (i + 1)..(j - 1) :
          ~(IsTransition(log[k]) /\ log[k].name = log[i].name /\ log[k].symbol = log[i].symbol))
      => log[i].action # log[j].action

\* a run met a pair that is missing again and whose last row, of an earlier
\* run, already says "delisted"
C4_Witness ==
  /\ Succeeded
  /\ prog = "check"
  /\ \E p \in TrackedBase \ TrackedPairs(lastRun.live) :
       /\ LastAction(before.log, p) = "delisted"
       /\ LastAction(log, p) = "delisted"

\* the current and the baseline pairs the latest run compared
RunCurrent == IF prog = "check" THEN TrackedPairs(lastRun.live) ELSE AllPairs(lastRun.live)
RunBase == IF prog = "check" THEN TrackedBase ELSE FlatPairs(baseline.entries)

\* C5, as stated: one run appends |current - baseline| "listed" rows and
\* |baseline - current| "delisted" rows.
C5_CountsAreDifferences ==
  Succeeded =>
    /\ Len(NewPairs("listed")) = Cardinality(RunCurrent \ RunBase)
    /\ Len(NewPairs("delisted")) = Cardinality(RunBase \ RunCurrent)

\* C5, amended: one run appends one "listed" row for each pair of
\* current - baseline and one "delisted" row for each pair of
\* baseline - current, except that listings_check.py leaves out the pairs
\* whose last row in the log already carries that action.
C5_CountsAreUnsuppressedDifferences ==
  Succeeded =>
    LET Skip(p, act) == prog = "check" /\ LastAction(before.log, p) = act
    IN /\ Len(NewPairs("listed"))
            = Cardinality({p \in RunCurrent \ RunBase : ~Skip(p, "listed")})
       /\ Range(NewPairs("listed")) = {p \in RunCurrent \ RunBase : ~Skip(p, "listed")}
       /\ Len(NewPairs("delisted"))
            = Cardinality({p \in RunBase \ RunCurrent : ~Skip(p, "delisted")})
       /\ Range(NewPairs("delisted")) = {p \in RunBase \ RunCurrent : ~Skip(p, "delisted")}

\* a run of listings_check.py that logged one new pair and left out another
C5_Witness ==
  /\ Succeeded
  /\ prog = "check"
  /\ Len(NewPairs("listed")) > 0
  /\ Len(NewPairs("listed")) < Cardinality(RunCurrent \ RunBase)

\* a list of pairs in strictly ascending tuple order
Ascending(ps) == \A i \in 1..Len(ps) : \A j \in (i + 1)..Len(ps) : PairLess(ps[i], ps[j])

\* C6: the "listed" rows one run appends are in ascending (exchange, symbol)
\* order, and so are its "delisted" rows.
C6_AppendedInSortedOrder ==
  Succeeded => Ascending(NewPairs("listed")) /\ Ascending(NewPairs("delisted"))

\* what the counters of fetch_derivatives_data say while it loops and when
\* it has returned
Max0(n) == IF n > 0 THEN n ELSE 0
C7_FetchState ==
  /\ httpCalls <= retries
  /\ pc = "fetch" => httpCalls = attempt /\ ~result.ok
  /\ pc = "fetched" =>
       IF result.ok
       THEN /\ IsData(resp)
            /\ result.data = resp.data
            /\ httpCalls = attempt + 1
            /\ sleeps = attempt
       ELSE /\ attempt = retries
            /\ httpCalls = retries
            /\ sleeps = Max0(retries - 1)
            /\ resp # NoResponse => ~IsData(resp)

\* C7: fetch_derivatives_data makes at most `retries` requests; it returns
\* the data of the first request that answers a non-empty list and makes no
\* request after it; it returns None exactly when `retries` requests have all
\* failed; it waits once after each failed request but the last; it returns.
C7_FetchWithinBudget ==
  /\ []C7_FetchState
  /\ [][pc = "fetched" => httpCalls' = httpCalls /\ result' = result]_vars
  /\ [][IsData(resp') /\ httpCalls' # httpCalls => pc' = "fetched" /\ result'.ok]_vars
  /\ <>(pc = "fetched")

C7_Witness ==
  /\ pc = "fetched"
  /\ ~result.ok
  /\ retries = DefaultRetries
  /\ httpCalls = DefaultRetries
  /\ sleeps = DefaultRetries - 1

\* C8: a run that ends for a missing exchange list, a missing API key or an
\* exhausted fetch leaves the log, the baseline, the data files, their index
\* files and the summary as it found them; so does a run still fetching.
C8_AbortWritesNothing ==
  /\ (pc = "done" /\ outcome \in {"no_exchanges", "no_key", "no_baseline", "no_data"})
       => Snapshot = before
  /\ pc \in {"fetch", "fetched"} => Snapshot = before

\* a fetch that ran out of attempts after an earlier run had written files
C8_Witness ==
  /\ pc = "done"
  /\ outcome = "no_data"
  /\ prog = "fetcher"
  /\ log # <<>>
  /\ summary # <<>>

\* C9, as stated: the summary holds at most one row per (date, exchange), and
\* the row carries the sum of the latest call for that (date, exchange).
C9_RowPerExactKey ==
  /\ \A i \in 1..Len(summary) : \A j \in 1..Len(summary) :
       (summary[i].date = summary[j].date /\ summary[i].market = summary[j].market) => i = j
  /\ \A i \in 1..Len(summary) :
       summary[i].sum_volume_24h = supplied[<<summary[i].date, summary[i].market>>].sum

\* (date, exchange) keys that update_daily_combined takes for the same
SameKey(d1, e1, d2, e2) == d1 = d2 /\ Lower(e1) = Lower(e2)
LatestFor(d, e) ==
  LET ks == {k \in DOMAIN supplied : SameKey(k[1], k[2], d, e)}
  IN CHOOSE k \in ks : \A l \in ks : supplied[l].at <= supplied[k].at
C9_SummaryState ==
  /\ \A i \in 1..Len(summary) : \A j \in 1..Len(summary) :
       SameKey(summary[i].date, summary[i].market, summary[j].date, summary[j].market)
         => i = j
  /\ \A i \in 1..Len(summary) :
       /\ supplied[LatestFor(summary[i].date, summary[i].market)].at > 0
       /\ summary[i].sum_volume_24h
            = supplied[LatestFor(summary[i].date, summary[i].market)].sum
  /\ \A k \in DOMAIN supplied :
       supplied[k].at > 0 =>
         \E i \in 1..Len(summary) : SameKey(summary[i].date, summary[i].market, k[1], k[2])

\* C9, amended: the key is (date, exchange name without regard to case).
\* The summary holds exactly one row per key called, the row carries the sum
\* of the latest call for the key, a repeated call changes nothing, and a
\* call changes no row of another key and removes none.
C9_UpsertByLoweredKey ==
  /\ []C9_SummaryState
  /\ [][lastCall' = lastCall => summary' = summary]_vars
  /\ [][/\ Len(summary') >= Len(summary)
        /\ \A i \in 1..Len(summary) :
             \/ summary'[i] = summary[i]
             \/ /\ SameKey(summary[i].date, summary[i].market,
                           lastCall'.date, lastCall'.exchange)
                /\ summary'[i] = [summary[i] EXCEPT !.sum_volume_24h = lastCall'.sum]]_vars

\* a call upserted the row that a call under the other spelling had made
C9_Witness ==
  /\ pc = "calls"
  /\ \E i \in 1..Len(summary) :
       /\ summary[i].market # lastCall.exchange
       /\ SameKey(summary[i].date, summary[i].market, lastCall.date, lastCall.exchange)
       /\ summary[i].sum_volume_24h = lastCall.sum
       /\ supplied[<<summary[i].date, summary[i].market>>].sum # lastCall.sum
  /\ Len(summary) >= 2

\* C10: with listings_check.py alone, a fixed baseline and a log that starts
\* empty, each pair has at most one transition row: "delisted" for a pair of
\* the baseline, "listed" for any other.
C10_OneRowPerPair ==
  \A p \in LoggedPairs(log) :
    /\ Cardinality(RowsOf(log, p)) = 1
    /\ LastAction(log, p) = IF p \in FlatPairs(baseline.entries) THEN "delisted" ELSE "listed"

\* a pair was logged "delisted", came back in the next run and is gone again
C10_Witness ==
  /\ Succeeded
  /\ prog = "check"
  /\ \E p \in TrackedBase :
       /\ p \in TrackedPairs(prevRun.live)
       /\ p \notin TrackedPairs(lastRun.live)
       /\ \E i \in RowsOf(log, p) : log[i].action = "delisted" /\ log[i].date < clock - 1

====
